---- MODULE Spec2Model ----
(***************************************************************************)
(* Model of twilight-commands: the slash-command tree and executor         *)
(* (src/executor/slash.rs), the argument conversion layer                  *)
(* (src/arguments.rs, src/argument_converters.rs) and the two derive       *)
(* macros (twilight_commands_derive/src/{command,choices}.rs).             *)
(*                                                                         *)
(* Strings are sequences of one-character strings, so that split(' ') and  *)
(* chars().next() are computed and not assumed.  An f64 is modelled in     *)
(* halves: the integer n stands for the number n/2.                        *)
(***************************************************************************)
EXTENDS Integers, Sequences, FiniteSets, TLC

\* ------------------------------------------------------------------ bounds
MaxRegs == 3
MaxVariants == 27

\* ------------------------------------------------------- program constants
MaxChoices == 25

AccentColor == 11141120

\* ------------------------------------------------------------ small helpers
EmptyMap == [k \in {} |-> 0]

Put(m, k, v) == [x \in (DOMAIN m) \cup {k} |-> IF x = k THEN v ELSE m[x]]

Min2(a, b) == IF a < b THEN a ELSE b

Max2(a, b) == IF a > b THEN a ELSE b

RECURSIVE Pow2(_)
Pow2(n) == IF n = 0 THEN 1 ELSE 2 * Pow2(n - 1)

\* ------------------------------------------------- CommandOptionValue model
\* twilight_model's CommandOptionValue: a tag and the payload it carries.
Tags == {"String", "Number", "Integer", "Boolean", "User", "Role", "Channel",
         "Mentionable", "SubCommand"}

Val(tag, str, num, bool) == [tag |-> tag, str |-> str, num |-> num, bool |-> bool]

VString(s) == Val("String", s, 0, FALSE)

VNumber(h) == Val("Number", <<>>, h, FALSE)

VInteger(i) == Val("Integer", <<>>, i, FALSE)

VBoolean(b) == Val("Boolean", <<>>, 0, b)

VId(tag, i) == Val(tag, <<>>, i, FALSE)

\* ------------------------------------------------------- Result<T> model
Ok(v) == [ok |-> TRUE, val |-> v, err |-> "none"]

Err(e) == [ok |-> FALSE, val |-> Val("none", <<>>, 0, FALSE), err |-> e]

InvalidType == Err("InvalidType")

\* --------------------------------------------------------- built-in types
SignedTypes == {"i8", "i16", "i32", "i64", "i128", "isize"}

UnsignedTypes == {"u8", "u16", "u32", "u64", "u128", "usize"}

FloatTypes == {"f32", "f64"}

IntTypes == SignedTypes \cup UnsignedTypes

NumericTypes == IntTypes \cup FloatTypes

IdTypes == {"Id<UserMarker>", "Id<RoleMarker>", "Id<ChannelMarker>", "Id<GenericMarker>"}

BuiltinTypes == {"String", "char", "bool"} \cup NumericTypes \cup IdTypes

Bits(ty) ==
    CASE ty \in {"i8", "u8"} -> 8
      [] ty \in {"i16", "u16"} -> 16
      [] ty \in {"i32", "u32", "f32"} -> 32
      [] ty \in {"i64", "u64", "isize", "usize", "f64"} -> 64
      [] OTHER -> 128

\* `f as $ty` for an integer target: truncate toward zero, then saturate.
\* h is the f64 in halves.  Targets wider than 16 bits cannot saturate at
\* their far ends on the numbers the model supplies (|h| < 2^30).
TruncHalves(h) == IF h >= 0 THEN h \div 2 ELSE -((-h) \div 2)

CastInt(h, ty) ==
    LET t == TruncHalves(h)
        lo == IF ty \in UnsignedTypes THEN 0
              ELSE IF Bits(ty) <= 16 THEN -Pow2(Bits(ty) - 1) ELSE t
        hi == IF Bits(ty) > 16 THEN t
              ELSE IF ty \in UnsignedTypes THEN Pow2(Bits(ty)) - 1
              ELSE Pow2(Bits(ty) - 1) - 1
    IN  Max2(lo, Min2(hi, t))

\* `f as f32`: round to a 24-bit significand, ties to even.  The result is
\* again in halves.  Exact below 2^24 halves.
RECURSIVE Ulp24(_)
Ulp24(m) == IF m < Pow2(24) THEN 1 ELSE 2 * Ulp24(m \div 2)

RoundF32Mag(m) ==
    LET u == Ulp24(m)
        q == m \div u
        r == m % u
    IN  IF 2 * r < u THEN q * u
        ELSE IF 2 * r > u THEN (q + 1) * u
        ELSE IF q % 2 = 0 THEN q * u ELSE (q + 1) * u

CastF32(h) == IF h >= 0 THEN RoundF32Mag(h) ELSE -RoundF32Mag(-h)

\* The native value a numeric converter yields: integers are whole numbers,
\* floats stay in halves.
NumericCast(h, ty) ==
    IF ty \in IntTypes THEN CastInt(h, ty)
    ELSE IF ty = "f32" THEN CastF32(h)
    ELSE h

\* The one tag each built-in converter matches on.
RequiredTag(ty) ==
    CASE ty \in {"String", "char"} -> "String"
      [] ty = "bool" -> "Boolean"
      [] ty \in NumericTypes -> "Number"
      [] ty = "Id<UserMarker>" -> "User"
      [] ty = "Id<RoleMarker>" -> "Role"
      [] ty = "Id<ChannelMarker>" -> "Channel"
      [] ty = "Id<GenericMarker>" -> "Mentionable"

\* impl ArgumentConverter for <ty>: convert(data)
ConvertString(data) ==
    IF data.tag = "String" THEN Ok(Val("String", data.str, 0, FALSE)) ELSE InvalidType

\* A numeric conversion that takes an Integer value as well.
ConvertNumeric_AcceptsInteger(ty, data) ==
    IF data.tag \in {"Number", "Integer"}
    THEN Ok(Val(ty, <<>>, NumericCast(IF data.tag = "Number" THEN data.num ELSE 2 * data.num, ty),
                FALSE))
    ELSE InvalidType

ConvertNumeric(ty, data) ==
    IF data.tag = "Number" THEN Ok(Val(ty, <<>>, NumericCast(data.num, ty), FALSE))
    ELSE InvalidType

ConvertBool(data) ==
    IF data.tag = "Boolean" THEN Ok(Val("bool", <<>>, 0, data.bool)) ELSE InvalidType

ConvertChar(data) ==
    IF data.tag = "String"
    THEN IF Len(data.str) > 0 THEN Ok(Val("char", <<Head(data.str)>>, 0, FALSE))
         ELSE InvalidType
    ELSE InvalidType

ConvertId(ty, data) ==
    IF data.tag = RequiredTag(ty) THEN Ok(Val(ty, <<>>, data.num, FALSE)) ELSE InvalidType

\* impl ArgumentConverter for each built-in type, selected by the type.
Convert(ty, data) ==
    CASE ty = "String" -> ConvertString(data)
      [] ty = "char" -> ConvertChar(data)
      [] ty = "bool" -> ConvertBool(data)
      [] ty \in NumericTypes -> ConvertNumeric(ty, data)
      [] ty \in IdTypes -> ConvertId(ty, data)

\* Option<&CommandOptionValue>: <<>> is None, <<v>> is Some(v).
\* impl<T: ArgumentConverter> OptionalArgumentConverter for T
ConvertRequired(ty, data) ==
    IF data # <<>> THEN Convert(ty, data[1]) ELSE InvalidType

\* An Option<T> conversion that turns a failed conversion into None.
ConvertOption_NoneOnFailure(ty, data) ==
    IF data # <<>> /\ ConvertRequired(ty, data).ok
    THEN [ok |-> TRUE, val |-> <<ConvertRequired(ty, data).val>>, err |-> "none"]
    ELSE [ok |-> TRUE, val |-> <<>>, err |-> "none"]

\* impl<T: OptionalArgumentConverter> OptionalArgumentConverter for Option<T>
\* The native Option<T> is <<>> (None) or <<v>> (Some(v)).
ConvertOption(ty, data) ==
    IF data # <<>>
    THEN LET r == ConvertRequired(ty, data)
         IN  IF r.ok THEN [ok |-> TRUE, val |-> <<r.val>>, err |-> "none"]
             ELSE [ok |-> FALSE, val |-> <<>>, err |-> r.err]
    ELSE [ok |-> TRUE, val |-> <<>>, err |-> "none"]

\* An options_map in which the first pair with a name wins.
RECURSIVE OptionsMap_FirstWins(_)
OptionsMap_FirstWins(options) ==
    IF options = <<>> THEN EmptyMap
    ELSE LET rest == OptionsMap_FirstWins(Tail(options))
         IN  Put(rest, options[1].name, options[1].value)

\* options_map: collect::<HashMap<_, _>>() over (name, value); a later pair
\* with the same name overwrites an earlier one.
RECURSIVE OptionsMap(_)
OptionsMap(options) ==
    IF options = <<>> THEN EmptyMap
    ELSE LET n == Len(options)
             rest == OptionsMap(SubSeq(options, 1, n - 1))
         IN  Put(rest, options[n].name, options[n].value)

\* HashMap::get
MapGet(m, k) == IF k \in DOMAIN m THEN <<m[k]>> ELSE <<>>

\* arguments::parse::<T>(options, name); a field is [name, ty, optional].
parse(options_map, field) ==
    IF field.optional THEN ConvertOption(field.ty, MapGet(options_map, field.name))
    ELSE ConvertRequired(field.ty, MapGet(options_map, field.name))

\* ------------------------------------------------------------ CommandOption
\* arguments::CommandOption, the fields the built-in types and the command
\* derive set.  max_length is <<>> (None) or <<n>>.
CommandOptionNew(kind) ==
    [kind |-> kind, required |-> TRUE, name |-> "", description |-> "",
     max_length |-> <<>>]

\* impl ToOption for each built-in type
to_option(ty) ==
    CASE ty = "String" -> CommandOptionNew("String")
      [] ty = "char" -> [CommandOptionNew("String") EXCEPT !.max_length = <<1>>]
      [] ty = "bool" -> CommandOptionNew("Boolean")
      [] ty \in IntTypes -> CommandOptionNew("Integer")
      [] ty \in FloatTypes -> CommandOptionNew("Number")
      [] ty = "Id<UserMarker>" -> CommandOptionNew("User")
      [] ty = "Id<RoleMarker>" -> CommandOptionNew("Role")
      [] ty = "Id<ChannelMarker>" -> CommandOptionNew("Channel")
      [] ty = "Id<GenericMarker>" -> CommandOptionNew("Mentionable")

\* impl<T: ToOption> ToOption for Option<T>
to_option_optional(ty) == [to_option(ty) EXCEPT !.required = FALSE]

\* command derive, field_option: T::to_option().name(..).description(..)
field_option(field) ==
    LET base == IF field.optional THEN to_option_optional(field.ty) ELSE to_option(field.ty)
    IN  [base EXCEPT !.name = field.name, !.description = field.description]

\* ------------------------------------------------- derived Command types
\* The structs the host derives Command for: name(), description() and the
\* declared fields in order.
Field(name, ty, optional) ==
    [name |-> name, ty |-> ty, optional |-> optional,
     description |-> "No description provided"]

CommandTypes ==
    { [id |-> "Ping", name |-> <<"p">>, description |-> "Ping", fields |-> <<>>],
      [id |-> "Ping2", name |-> <<"p">>, description |-> "Ping again",
       fields |-> <<Field("text", "String", TRUE)>>],
      [id |-> "NoteAdd", name |-> <<"n", " ", "a">>, description |-> "Add a note",
       fields |-> <<Field("text", "String", FALSE)>>],
      [id |-> "NoteTag", name |-> <<"n", " ", "g", " ", "x">>,
       description |-> "No description provided",
       fields |-> <<Field("text", "char", FALSE), Field("flag", "bool", FALSE)>>],
      [id |-> "Note", name |-> <<"n">>, description |-> "Notes",
       fields |-> <<Field("text", "i8", FALSE)>>],
      [id |-> "Deep", name |-> <<"n", " ", "g", " ", "x", " ", "y">>,
       description |-> "Deep", fields |-> <<>>] }

TypeOf(id) == CHOOSE C \in CommandTypes : C.id = id

\* generated Command::options()
RECURSIVE MapFieldOption(_)
MapFieldOption(fields) ==
    IF fields = <<>> THEN <<>>
    ELSE <<field_option(Head(fields))>> \o MapFieldOption(Tail(fields))

options_of(C) == MapFieldOption(C.fields)

\* A decode that passes over a field that fails and builds the rest.
RECURSIVE ParseFields_SkipsFailed(_, _)
ParseFields_SkipsFailed(options_map, fields) ==
    IF fields = <<>> THEN [ok |-> TRUE, args |-> EmptyMap, err |-> "none"]
    ELSE LET r == parse(options_map, Head(fields))
             rest == ParseFields_SkipsFailed(options_map, Tail(fields))
         IN  IF ~r.ok THEN rest
             ELSE [rest EXCEPT !.args = Put(rest.args, Head(fields).name, r.val)]

\* generated Command::from_command_data: the struct literal evaluates
\* parse(..)? field by field, in declaration order; the first failure returns.
RECURSIVE ParseFields(_, _)
ParseFields(options_map, fields) ==
    IF fields = <<>> THEN [ok |-> TRUE, args |-> EmptyMap, err |-> "none"]
    ELSE LET r == parse(options_map, Head(fields))
         IN  IF ~r.ok THEN [ok |-> FALSE, args |-> EmptyMap, err |-> r.err]
             ELSE LET rest == ParseFields(options_map, Tail(fields))
                  IN  IF ~rest.ok THEN rest
                      ELSE [rest EXCEPT !.args = Put(rest.args, Head(fields).name, r.val)]

from_command_data(C, options) ==
    IF C.fields = <<>> THEN [ok |-> TRUE, args |-> EmptyMap, err |-> "none"]
    ELSE ParseFields(OptionsMap(options), C.fields)

\* ------------------------------------------------------------ CommandTree
NoInfo == [handler |-> [C |-> "none", F |-> -1], options |-> <<>>, description |-> ""]

Node(children) == [kind |-> "Node", children |-> children, info |-> NoInfo]

Leaf(info) == [kind |-> "Leaf", children |-> EmptyMap, info |-> info]

\* CommandTree::new
NewTree == Node(EmptyMap)

\* An insert that keeps an entry already bound to the last segment
\* (entry(key).or_insert(..) in place of insert(key, ..)).
RECURSIVE insert_KeepsFirst(_, _, _)
insert_KeepsFirst(self, path, info) ==
    IF self.kind = "Node"
    THEN IF path = <<>> THEN [panic |-> FALSE, tree |-> self]
         ELSE LET key == Head(path)
              IN  IF Len(path) = 1
                  THEN [panic |-> FALSE,
                        tree |-> IF key \in DOMAIN self.children THEN self
                                 ELSE Node(Put(self.children, key, Leaf(info)))]
                  ELSE LET child == IF key \in DOMAIN self.children
                                    THEN self.children[key] ELSE NewTree
                           r == insert_KeepsFirst(child, Tail(path), info)
                       IN  [panic |-> r.panic,
                            tree |-> Node(Put(self.children, key, r.tree))]
    ELSE [panic |-> TRUE, tree |-> self]

\* An insert that turns a Leaf in its way into a Node and goes on.
RECURSIVE insert_ConvertsLeaf(_, _, _)
insert_ConvertsLeaf(self, path, info) ==
    IF path = <<>> THEN [panic |-> FALSE, tree |-> self]
    ELSE LET children == IF self.kind = "Node" THEN self.children ELSE EmptyMap
             key == Head(path)
         IN  IF Len(path) = 1
             THEN [panic |-> FALSE, tree |-> Node(Put(children, key, Leaf(info)))]
             ELSE LET child == IF key \in DOMAIN children THEN children[key] ELSE NewTree
                      r == insert_ConvertsLeaf(child, Tail(path), info)
                  IN  [panic |-> FALSE, tree |-> Node(Put(children, key, r.tree))]

\* An insert that, at the last segment, starts the map afresh with the new
\* Leaf alone.
RECURSIVE insert_ResetsSiblings(_, _, _)
insert_ResetsSiblings(self, path, info) ==
    IF self.kind = "Node"
    THEN IF path = <<>> THEN [panic |-> FALSE, tree |-> self]
         ELSE LET key == Head(path)
              IN  IF Len(path) = 1
                  THEN [panic |-> FALSE, tree |-> Node(Put(EmptyMap, key, Leaf(info)))]
                  ELSE LET child == IF key \in DOMAIN self.children
                                    THEN self.children[key] ELSE NewTree
                           r == insert_ResetsSiblings(child, Tail(path), info)
                       IN  [panic |-> r.panic,
                            tree |-> Node(Put(self.children, key, r.tree))]
    ELSE [panic |-> TRUE, tree |-> self]

\* CommandTree::insert; the outcome is the tree and whether insert panicked.
RECURSIVE insert(_, _, _)
insert(self, path, info) ==
    IF self.kind = "Node"
    THEN IF path = <<>> THEN [panic |-> FALSE, tree |-> self]
         ELSE LET key == Head(path)
              IN  IF Len(path) = 1
                  THEN [panic |-> FALSE, tree |-> Node(Put(self.children, key, Leaf(info)))]
                  ELSE LET child == IF key \in DOMAIN self.children
                                    THEN self.children[key] ELSE NewTree
                           r == insert(child, Tail(path), info)
                       IN  [panic |-> r.panic,
                            tree |-> Node(Put(self.children, key, r.tree))]
    ELSE [panic |-> TRUE, tree |-> self]

\* A get that stops at the first Leaf on the way and returns it, whatever is
\* left of the path.
RECURSIVE get_StopsAtLeaf(_, _)
get_StopsAtLeaf(self, path) ==
    IF path = <<>> \/ Head(path) \notin DOMAIN self.children THEN <<>>
    ELSE LET child == self.children[Head(path)]
         IN  IF child.kind = "Leaf" THEN <<child.info>>
             ELSE IF Len(path) = 1 THEN <<>>
             ELSE get_StopsAtLeaf(child, Tail(path))

\* CommandTree::get; <<>> is None, <<info>> is Some(info).
RECURSIVE get(_, _)
get(self, path) ==
    IF self.kind = "Node"
    THEN IF path = <<>> THEN <<>>
         ELSE LET key == Head(path)
              IN  IF key \notin DOMAIN self.children THEN <<>>
                  ELSE LET child == self.children[key]
                       IN  IF Len(path) = 1
                           THEN IF child.kind = "Leaf" THEN <<child.info>> ELSE <<>>
                           ELSE get(child, Tail(path))
    ELSE <<>>

\* str::split(' ').map(String::from).collect(): the pieces between spaces;
\* a string with no space is one piece, the empty string included.
RECURSIVE Split(_)
Split(name) ==
    IF \A i \in 1..Len(name) : name[i] # " " THEN <<name>>
    ELSE LET i == CHOOSE k \in 1..Len(name) :
                      name[k] = " " /\ \A j \in 1..(k - 1) : name[j] # " "
         IN  <<SubSeq(name, 1, i - 1)>> \o Split(SubSeq(name, i + 1, Len(name)))

\* ---------------------------------------------------- InteractionResponse
\* content is <<>> (None) or <<text>>; components is the list of containers,
\* empty for None; a text is the sequence of the pieces format! joins.
Response(content, components, flags) ==
    [kind |-> "ChannelMessageWithSource", content |-> content,
     components |-> components, flags |-> flags]

\* A parse-failure response built the way execute builds its error response.
ParseFailureResponse_Container ==
    Response(<<>>,
             << [accent_color |-> AccentColor, text |-> <<"Failed to parse command data.">>] >>,
             {"EPHEMERAL", "IS_COMPONENTS_V2"})

\* TypedAsyncHandler::handle, the Err(_) arm
ParseFailureResponse ==
    Response(<< <<"Failed to parse command data.">> >>, <<>>, {"EPHEMERAL"})

\* CommandExecutor::execute, the unwrap_or_else closure
HandlerErrorResponse(e) ==
    Response(<<>>,
             << [accent_color |-> AccentColor, text |-> <<"An error occurred: ", e>>] >>,
             {"EPHEMERAL", "IS_COMPONENTS_V2"})

\* What a user handler's future can resolve to: CommandResponse.
HOk(resp) == [ok |-> TRUE, resp |-> resp, err |-> "none"]

HErr(e) == [ok |-> FALSE, resp |-> Response(<<>>, <<>>, {}), err |-> e]

HandlerOutcomes == {HOk(Response(<< <<"pong">> >>, <<>>, {})), HErr("boom")}

\* An unwrap that hands back whatever response slot the outcome has.
unwrap_or_else_Unwraps(outcome) == outcome.resp

\* Result::unwrap_or_else(|e| ...) in execute
unwrap_or_else(outcome) ==
    IF outcome.ok THEN outcome.resp ELSE HandlerErrorResponse(outcome.err)

\* ---------------------------------------------------------- build_commands
NoDescription == "No description provided"

Descriptor(kind, name, description, options, subs) ==
    [kind |-> kind, name |-> name, description |-> description,
     options |-> options, subs |-> subs]

\* A subcommand built with the placeholder description of a group.
SubCommandOf_DefaultDescription(name, info) ==
    Descriptor("SubCommand", name, NoDescription, info.options, {})

\* SubCommandBuilder::new(name, info.description) with each option, in order
SubCommandOf(name, info) ==
    Descriptor("SubCommand", name, info.description, info.options, {})

\* the grandchild arm of build_commands: a subcommand, or a subcommand group
\* holding the Leaf children of the grandchild; its Node children are passed
\* over by `if let CommandTree::Leaf(info) = subchild`.
GrandchildOption(name, grandchild) ==
    IF grandchild.kind = "Leaf" THEN SubCommandOf(name, grandchild.info)
    ELSE Descriptor("SubCommandGroup", name, NoDescription, <<>>,
                    { SubCommandOf(n, grandchild.children[n].info) :
                        n \in { k \in DOMAIN grandchild.children :
                                  grandchild.children[k].kind = "Leaf" } })

\* the child arm of build_commands: one Command per top-level key
TopCommand(name, child) ==
    IF child.kind = "Leaf"
    THEN Descriptor("ChatInput", name, child.info.description, child.info.options, {})
    ELSE Descriptor("ChatInput", name, NoDescription, <<>>,
                    { GrandchildOption(g, child.children[g]) : g \in DOMAIN child.children })

\* CommandExecutor::build_commands.  The Vec is filled in HashMap iteration
\* order, which is unspecified, so the model keeps the collection as a set.
build_commands(tree) ==
    IF tree.kind = "Node"
    THEN [panic |-> FALSE,
          commands |-> { TopCommand(n, tree.children[n]) : n \in DOMAIN tree.children }]
    ELSE [panic |-> TRUE, commands |-> {}]

\* ------------------------------------------------------------------- state
VARIABLES commands, panicked, registered, calls, exported, probe

vars == <<commands, panicked, registered, calls, exported, probe>>

\* The tasks that call execute, and the inputs they draw from.
Callers == {"c1", "c2"}

Interactions == {"i1", "i2"}

SharedState == "state"

ExecNames ==
    { <<"p">>, <<"q">>, <<"n">>, <<"n", " ", "a">>, <<"n", " ", "q">>,
      <<"n", " ", "g">>, <<"n", " ", "g", " ", "x">>, <<"n", " ", "g", " ", "q">>,
      <<"n", " ", "g", " ", "x", " ", "y">> }

Opt(name, value) == [name |-> name, value |-> value]

OptionLists ==
    { <<>>,
      <<Opt("text", VString(<<"a", "b">>))>>,
      <<Opt("text", VString(<<>>)), Opt("flag", VBoolean(TRUE))>>,
      <<Opt("text", VNumber(601))>>,
      <<Opt("text", VBoolean(TRUE)), Opt("text", VString(<<"a", "b">>))>>,
      <<Opt("text", VString(<<"a", "b">>)), Opt("flag", VNumber(2))>>,
      <<Opt("flag", VBoolean(TRUE)), Opt("text", VString(<<"a", "b">>))>> }

IdleCall ==
    [pc |-> "idle", name |-> <<>>, options |-> <<>>, interaction |-> "none",
     invoked |-> <<>>, produced |-> <<>>, result |-> <<>>]

NotExported == [panic |-> FALSE, commands |-> {}, taken |-> FALSE]

\* probe holds the input and the output of one call of a function that has
\* no state of its own (a converter, a derive); the executor does not use it.
NoProbe == [pc |-> "none"]

Init ==
    /\ commands = NewTree
    /\ panicked = FALSE
    /\ registered = <<>>
    /\ calls = [c \in Callers |-> IdleCall]
    /\ exported = NotExported
    /\ probe = NoProbe

\* ----------------------------------------------------------------- actions
\* CommandExecutor::register::<C, F, Fut>(handler).  It takes &mut self, so
\* no execute future (which borrows &self) is alive; a finished call's record
\* is handed back (Collect) before the tree changes, so that a record is
\* always read against the tree it ran on.  The closure F is identified by
\* the number of the register call that passed it; `registered` is the log
\* of the register calls made.
Register(C) ==
    /\ ~panicked
    /\ Len(registered) < MaxRegs
    /\ \A c \in Callers : calls[c].pc = "idle"
    /\ LET command_info == [handler |-> [C |-> C.id, F |-> Len(registered)],
                            options |-> options_of(C),
                            description |-> C.description]
           path == Split(C.name)
           r == insert(commands, path, command_info)
       IN  /\ commands' = r.tree
           /\ panicked' = r.panic
    /\ registered' = Append(registered, [C |-> C.id, F |-> Len(registered)])
    /\ UNCHANGED <<calls, exported, probe>>

\* A handle that is itself asynchronous: it returns a future at once and
\* leaves the decoding to that future's body.
handle_DecodesInFuture(handler, interaction, interaction_data, state) ==
    [ready |-> FALSE, output |-> <<>>,
     invoked |-> << [F |-> handler.F, C |-> handler.C, args |-> EmptyMap,
                     interaction |-> interaction, state |-> state] >>]

\* TypedAsyncHandler::handle: decode, then call the user handler, which
\* returns its future; on a decode failure the future is the ready
\* parse-failure response and the user handler is not called.
handle(handler, interaction, interaction_data, state) ==
    LET command_data == from_command_data(TypeOf(handler.C), interaction_data)
    IN  IF ~command_data.ok
        THEN [ready |-> TRUE, output |-> <<HOk(ParseFailureResponse)>>, invoked |-> <<>>]
        ELSE [ready |-> FALSE, output |-> <<>>,
              invoked |-> << [F |-> handler.F, C |-> handler.C, args |-> command_data.args,
                              interaction |-> interaction, state |-> state] >>]

\* CommandExecutor::execute up to the await of the handler's future: the
\* split, the lookup (`?` returns None on a miss) and handle.
ExecuteCall(tree, name, interaction, options, state) ==
    LET path == Split(name)
        handler == get(tree, path)
    IN  IF handler = <<>>
        THEN [IdleCall EXCEPT !.pc = "done", !.name = name, !.options = options,
                              !.interaction = interaction]
        ELSE LET fut == handle(handler[1].handler, interaction, options, state)
             IN  IF fut.ready
                 THEN [IdleCall EXCEPT !.pc = "done", !.name = name, !.options = options,
                                       !.interaction = interaction,
                                       !.produced = fut.output,
                                       !.result = <<unwrap_or_else(fut.output[1])>>]
                 ELSE [IdleCall EXCEPT !.pc = "awaiting", !.name = name,
                                       !.options = options,
                                       !.interaction = interaction,
                                       !.invoked = fut.invoked]

Execute(c) ==
    /\ ~panicked
    /\ calls[c].pc = "idle"
    /\ \E name \in ExecNames, options \in OptionLists, interaction \in Interactions :
         calls' = [calls EXCEPT
                     ![c] = ExecuteCall(commands, name, interaction, options, SharedState)]
    /\ UNCHANGED <<commands, panicked, registered, exported, probe>>

\* A finish that calls the handler again after a failure.
FinishCall_Retries(call, outcome) ==
    [call EXCEPT !.pc = "done", !.produced = <<outcome>>,
                 !.result = <<unwrap_or_else(outcome)>>,
                 !.invoked = IF outcome.ok THEN @ ELSE @ \o @]

\* The user handler's future resolves; execute maps it through
\* unwrap_or_else and returns Some(response).
FinishCall(call, outcome) ==
    [call EXCEPT !.pc = "done", !.produced = <<outcome>>,
                 !.result = <<unwrap_or_else(outcome)>>]

HandlerFinish(c) ==
    /\ calls[c].pc = "awaiting"
    /\ \E outcome \in HandlerOutcomes :
         calls' = [calls EXCEPT ![c] = FinishCall(calls[c], outcome)]
    /\ UNCHANGED <<commands, panicked, registered, exported, probe>>

\* The caller takes the returned Option<InteractionResponse>.
Collect(c) ==
    /\ calls[c].pc = "done"
    /\ calls' = [calls EXCEPT ![c] = IdleCall]
    /\ UNCHANGED <<commands, panicked, registered, exported, probe>>

\* A build_commands that takes the entries out of the tree (drain) while it
\* builds the schema.
BuildCommands_Drains ==
    /\ ~panicked
    /\ LET r == build_commands(commands)
       IN  exported' = [panic |-> r.panic, commands |-> r.commands, taken |-> TRUE]
    /\ commands' = NewTree
    /\ UNCHANGED <<panicked, registered, calls, probe>>

\* CommandExecutor::build_commands (&self)
BuildCommands ==
    /\ ~panicked
    /\ LET r == build_commands(commands)
       IN  exported' = [panic |-> r.panic, commands |-> r.commands, taken |-> TRUE]
    /\ UNCHANGED <<commands, panicked, registered, calls, probe>>

\* One host task: each execute is awaited before the next call.
MainCaller == "c1"

Next ==
    \/ \E C \in CommandTypes : Register(C)
    \/ Execute(MainCaller)
    \/ HandlerFinish(MainCaller)
    \/ Collect(MainCaller)
    \/ BuildCommands

Spec == Init /\ [][Next]_vars

\* The serving phase: the tree was built by register calls before serving,
\* and execute is called by several tasks at once.
ServingTypes == <<"Ping", "NoteAdd", "NoteTag">>

RECURSIVE RegisterAll(_, _, _)
RegisterAll(tree, ids, F) ==
    IF ids = <<>> THEN tree
    ELSE LET C == TypeOf(Head(ids))
             info == [handler |-> [C |-> C.id, F |-> F], options |-> options_of(C),
                      description |-> C.description]
         IN  RegisterAll(insert(tree, Split(C.name), info).tree, Tail(ids), F + 1)

InitServing ==
    /\ commands = RegisterAll(NewTree, ServingTypes, 0)
    /\ panicked = FALSE
    /\ registered = [i \in 1..Len(ServingTypes) |-> [C |-> ServingTypes[i], F |-> i - 1]]
    /\ calls = [c \in Callers |-> IdleCall]
    /\ exported = NotExported
    /\ probe = NoProbe

NextServing ==
    \/ \E c \in Callers : Execute(c)
    \/ \E c \in Callers : HandlerFinish(c)
    \/ \E c \in Callers : Collect(c)
    \/ BuildCommands

ServeSpec == InitServing /\ [][NextServing]_vars

\* ------------------------------------------------- the conversion layer
\* parse::<T> / parse::<Option<T>> applied once to an option list of at most
\* one pair, for every built-in T.
ConvValues ==
    { VString(<<>>), VString(<<"a">>), VString(<<"a", "b">>), VString(<<"b", "a">>),
      VNumber(-601), VNumber(-3), VNumber(0), VNumber(5), VNumber(601),
      VNumber(131071), VNumber(33554434),
      VInteger(3), VBoolean(TRUE), VBoolean(FALSE),
      VId("User", 1), VId("User", 7), VId("Role", 1), VId("Role", 7),
      VId("Channel", 1), VId("Channel", 7), VId("Mentionable", 1),
      VId("Mentionable", 7), Val("SubCommand", <<>>, 0, FALSE) }

ConvOptionLists ==
    {<<>>} \cup { <<Opt(n, v)>> : n \in {"arg", "other"}, v \in ConvValues }

InitConv ==
    /\ commands = NewTree
    /\ panicked = FALSE
    /\ registered = <<>>
    /\ calls = [c \in Callers |-> IdleCall]
    /\ exported = NotExported
    /\ \E ty \in BuiltinTypes, optional \in BOOLEAN, options \in ConvOptionLists :
           probe = [pc |-> "input", field |-> Field("arg", ty, optional),
                    options |-> options, result |-> InvalidType]

ApplyParse ==
    /\ probe.pc = "input"
    /\ probe' = [probe EXCEPT !.pc = "output",
                              !.result = parse(OptionsMap(probe.options), probe.field)]
    /\ UNCHANGED <<commands, panicked, registered, calls, exported>>

NextConv == ApplyParse

ConvSpec == InitConv /\ [][NextConv]_vars

\* ------------------------------------------------- the Choices derive
\* A variant is its ident and the optional #[choice(name = .., value = ..)]
\* attributes (<<>> is None).  A string is a pair such as <<"V", 3>>.
Variant(ident, name, value) == [ident |-> ident, name |-> name, value |-> value]

Ident(k) == <<"V", k>>

\* unwrap_or_else(|| variant.ident.to_string())
OrIdent(attr, ident) == IF attr # <<>> THEN attr[1] ELSE ident

\* derive: the (ident, name, value) triples, in declaration order
VariantTriples(variants) ==
    [k \in 1..Len(variants) |->
        [ident |-> variants[k].ident,
         name |-> OrIdent(variants[k].name, variants[k].ident),
         value |-> OrIdent(variants[k].value, variants[k].ident)]]

\* the seen_values loop: whether some insert into the HashSet fails
RECURSIVE HasDuplicate(_, _)
HasDuplicate(triples, seen_values) ==
    IF triples = <<>> THEN FALSE
    ELSE IF Head(triples).value \in seen_values THEN TRUE
    ELSE HasDuplicate(Tail(triples), seen_values \cup {Head(triples).value})

\* A derive whose limit is off by one.
derive_choices_OffByOne(variants) ==
    LET triples == VariantTriples(variants)
    IN  IF Len(variants) >= MaxChoices \/ HasDuplicate(triples, {})
        THEN [ok |-> FALSE, kind |-> "none", choices |-> <<>>, matches |-> <<>>]
        ELSE [ok |-> TRUE, kind |-> "String",
              choices |-> [k \in 1..Len(triples) |->
                              [name |-> triples[k].name, value |-> triples[k].value]],
              matches |-> [k \in 1..Len(triples) |->
                              [value |-> triples[k].value, ident |-> triples[k].ident]]]

\* choices::derive: an error, or the generated ToOption (kind String with
\* the choices) and the arms of the generated converter's match.
derive_choices(variants) ==
    LET triples == VariantTriples(variants)
    IN  IF Len(variants) > MaxChoices
        THEN [ok |-> FALSE, kind |-> "none", choices |-> <<>>, matches |-> <<>>]
        ELSE IF HasDuplicate(triples, {})
        THEN [ok |-> FALSE, kind |-> "none", choices |-> <<>>, matches |-> <<>>]
        ELSE [ok |-> TRUE, kind |-> "String",
              choices |-> [k \in 1..Len(triples) |->
                              [name |-> triples[k].name, value |-> triples[k].value]],
              matches |-> [k \in 1..Len(triples) |->
                              [value |-> triples[k].value, ident |-> triples[k].ident]]]

\* The enums derived: n variants V1..Vn; when i < j the variant j carries
\* value = "Vi" (the value of variant i); when named, variant 1 carries a
\* display name equal to the value of the last variant.
EnumOf(n, i, j, named) ==
    [k \in 1..n |->
        Variant(Ident(k),
                IF named /\ k = 1 THEN <<Ident(n)>> ELSE <<>>,
                IF k = j /\ i < j THEN <<Ident(i)>> ELSE <<>>)]

InitChoices ==
    /\ commands = NewTree
    /\ panicked = FALSE
    /\ registered = <<>>
    /\ calls = [c \in Callers |-> IdleCall]
    /\ exported = NotExported
    /\ \E n \in 0..MaxVariants, named \in BOOLEAN :
           \E i \in 0..n, j \in 0..n :
               /\ (i = 0 /\ j = 0) \/ (0 < i /\ i < j)
               /\ probe = [pc |-> "enum", n |-> n, i |-> i, j |-> j, named |-> named,
                           variants |-> EnumOf(n, i, j, named),
                           derived |-> [ok |-> FALSE, kind |-> "none", choices |-> <<>>,
                                        matches |-> <<>>]]

DeriveChoices ==
    /\ probe.pc = "enum"
    /\ probe' = [probe EXCEPT !.pc = "derived", !.derived = derive_choices(probe.variants)]
    /\ UNCHANGED <<commands, panicked, registered, calls, exported>>

NextChoices == DeriveChoices

ChoicesSpec == InitChoices /\ [][NextChoices]_vars

\* ------------------------------------- the converter the derive generates
\* match value.as_str() { #value => Ok(Enum::#ident), .., _ => Err(InvalidType) }
\* with the arms in declaration order.
RECURSIVE MatchArms(_, _)
MatchArms(matches, value) ==
    IF matches = <<>> THEN InvalidType
    ELSE IF Head(matches).value = value THEN Ok(Head(matches).ident)
    ELSE MatchArms(Tail(matches), value)

\* A converter that looks the string up among the display names.
convert_choice_ByName(derived, data) ==
    IF data.tag = "String"
    THEN IF \E k \in 1..Len(derived.choices) : derived.choices[k].name = data.str
         THEN Ok(derived.matches[CHOOSE k \in 1..Len(derived.choices) :
                                     derived.choices[k].name = data.str].ident)
         ELSE InvalidType
    ELSE InvalidType

\* The generated ArgumentConverter::convert of a derived enum.
convert_choice(derived, data) ==
    IF data.tag = "String" THEN MatchArms(derived.matches, data.str)
    ELSE InvalidType

MaxLabelled == 3

Label(c, k) == <<c, k>>

\* The attributes a variant can carry: no name, a name of its own, or a
\* name that reads like the next variant's ident; no value, a value of its
\* own, or the value "V1".
NameAttr(a, k, n) ==
    CASE a = 0 -> <<>>
      [] a = 1 -> <<Label("N", k)>>
      [] OTHER -> <<Ident((k % n) + 1)>>

ValueAttr(b, k) ==
    CASE b = 0 -> <<>>
      [] b = 1 -> <<Label("W", k)>>
      [] OTHER -> <<Ident(1)>>

LabelledEnums ==
    UNION { { [k \in 1..n |-> Variant(Ident(k), NameAttr(f[k][1], k, n),
                                      ValueAttr(f[k][2], k))] :
                f \in [1..n -> (0..2) \X (0..2)] } : n \in 1..MaxLabelled }

\* The values handed to the converter.
ChoiceInputs ==
    { VString(Label(c, k)) : c \in {"V", "N", "W"}, k \in 1..MaxLabelled }
        \cup { VString(Label("Z", 0)), VNumber(2), VInteger(1), VBoolean(TRUE),
               VId("User", 1) }

InitChoiceConv ==
    /\ commands = NewTree
    /\ panicked = FALSE
    /\ registered = <<>>
    /\ calls = [c \in Callers |-> IdleCall]
    /\ exported = NotExported
    /\ \E variants \in LabelledEnums :
           probe = [pc |-> "enum", variants |-> variants,
                    derived |-> [ok |-> FALSE, kind |-> "none", choices |-> <<>>,
                                 matches |-> <<>>],
                    data |-> VString(<<>>), result |-> InvalidType]

\* One call of the generated convert; there is none when the derive failed.
ConvertChoice ==
    /\ probe.pc = "derived"
    /\ probe.derived.ok
    /\ \E data \in ChoiceInputs :
           probe' = [probe EXCEPT !.pc = "converted", !.data = data,
                                  !.result = convert_choice(probe.derived, data)]
    /\ UNCHANGED <<commands, panicked, registered, calls, exported>>

NextChoiceConv ==
    \/ DeriveChoices
    \/ ConvertChoice

ChoiceConvSpec == InitChoiceConv /\ [][NextChoiceConv]_vars

\* ============================================================== properties
\* The subtree a path leads to, by plain descent: <<>> when a segment is
\* missing or the descent would have to pass through a Leaf.
RECURSIVE SubtreeAt(_, _)
SubtreeAt(tree, path) ==
    IF path = <<>> THEN <<tree>>
    ELSE IF tree.kind = "Node" /\ Head(path) \in DOMAIN tree.children
         THEN SubtreeAt(tree.children[Head(path)], Tail(path))
         ELSE <<>>

ResolvesToLeaf(tree, path) ==
    /\ SubtreeAt(tree, path) # <<>>
    /\ SubtreeAt(tree, path)[1].kind = "Leaf"

ResolvesToNode(tree, path) ==
    /\ SubtreeAt(tree, path) # <<>>
    /\ SubtreeAt(tree, path)[1].kind = "Node"

Done(c) == calls[c].pc = "done"

Started(c) == calls[c].pc # "idle"

\* C1: a finished execute(name, ..) returned Some(response) if and only if
\* the path split(name, ' ') leads to a Leaf of the tree; when it does not
\* (a segment is missing at any depth, or the path ends on a Node), execute
\* is finished at once with None and no user handler was invoked.
C1_DispatchIffLeaf ==
    \A c \in Callers :
        Started(c) =>
            LET path == Split(calls[c].name)
            IN  /\ Done(c) => (calls[c].result # <<>> <=> ResolvesToLeaf(commands, path))
                /\ ~ResolvesToLeaf(commands, path) =>
                       /\ Done(c)
                       /\ calls[c].result = <<>>
                       /\ calls[c].invoked = <<>>

\* C1 witness: execute("n g") returned None although the Node at "n g" has a
\* Leaf child.
C1_Witness ==
    \E c \in Callers :
        /\ Done(c)
        /\ calls[c].name = <<"n", " ", "g">>
        /\ calls[c].result = <<>>
        /\ ResolvesToNode(commands, << <<"n">>, <<"g">> >>)
        /\ ResolvesToLeaf(commands, << <<"n">>, <<"g">>, <<"x">> >>)

\* What the exported schema says at a path of one to three segments: the
\* (description, options) of the command, of the subcommand, or of the
\* subcommand within a group, found by name.
Entry(d) == [description |-> d.description, options |-> d.options]

Named(ds, kind, n) == { d \in ds : d.kind = kind /\ d.name = n }

SubsNamed(ds, kind, n) == UNION { Named(d.subs, kind, n) : d \in ds }

ExportedAt(cmds, path) ==
    LET top == Named(cmds, "ChatInput", path[1])
    IN  CASE Len(path) = 1 -> { Entry(d) : d \in top }
          [] Len(path) = 2 -> { Entry(d) : d \in SubsNamed(top, "SubCommand", path[2]) }
          [] Len(path) = 3 ->
               { Entry(d) : d \in SubsNamed(SubsNamed(top, "SubCommandGroup", path[2]),
                                            "SubCommand", path[3]) }
          [] OTHER -> {}

\* C2: when the last two register calls named the same path, the tree holds
\* only the second: every execute on that path decodes with the second
\* command type and invokes the second closure, never the first, and the
\* export (for a path the schema can hold, one to three segments) carries
\* the second's description and options at that path.
C2_LastRegistrationWins ==
    LET n == Len(registered)
    IN  (n >= 2 /\ ~panicked /\
         Split(TypeOf(registered[n].C).name) = Split(TypeOf(registered[n - 1].C).name)) =>
            LET second == TypeOf(registered[n].C)
                path == Split(second.name)
                h == [C |-> registered[n].C, F |-> registered[n].F]
            IN  /\ \A c \in Callers :
                       (Started(c) /\ Split(calls[c].name) = path) =>
                           /\ calls[c].invoked =
                                  handle(h, calls[c].interaction, calls[c].options,
                                         SharedState).invoked
                           /\ \A k \in 1..Len(calls[c].invoked) :
                                  calls[c].invoked[k].F # registered[n - 1].F
                /\ Len(path) <= 3 =>
                       ExportedAt(build_commands(commands).commands, path) =
                           { [description |-> second.description,
                              options |-> options_of(second)] }

\* C2 witness: "p" was registered as Ping and then as Ping2, and an execute
\* of "p" invoked the second closure with Ping2's optional text decoded.
C2_Witness ==
    /\ Len(registered) = 2
    /\ registered[1].C = "Ping"
    /\ registered[2].C = "Ping2"
    /\ \E c \in Callers :
           /\ Done(c)
           /\ calls[c].name = <<"p">>
           /\ Len(calls[c].invoked) = 1
           /\ calls[c].invoked[1].F = 1
           /\ calls[c].invoked[1].args["text"] # <<>>

\* The value an invocation supplies under a name: the last pair so named.
Supplied(options, name) == \E i \in 1..Len(options) : options[i].name = name

LastValue(options, name) ==
    options[CHOOSE i \in 1..Len(options) :
                /\ options[i].name = name
                /\ \A j \in (i + 1)..Len(options) : options[j].name # name].value

\* The leaf a started call's path leads to, and its command type.
LeafInfo(c) == SubtreeAt(commands, Split(calls[c].name))[1].info

LeafType(c) == TypeOf(LeafInfo(c).handler.C)

HitsLeaf(c) == Started(c) /\ ResolvesToLeaf(commands, Split(calls[c].name))

FieldsOf(C) == { C.fields[i] : i \in 1..Len(C.fields) }

\* The native value of a field inside the argument struct (Some(v) unwrapped).
ArgValue(field, arg) == IF field.optional THEN arg[1] ELSE arg

\* The native value carries the same payload as the raw value (a number in
\* halves against a whole number for the integer types).
SamePayload(ty, native, value) ==
    /\ native.str = value.str
    /\ native.bool = value.bool
    /\ IF ty \in IntTypes THEN 2 * native.num = value.num ELSE native.num = value.num

\* The handler of call c was invoked once, with the call's own interaction
\* and the shared state; a response it produced is what execute returned.
InvokedOnce(c) ==
    /\ Len(calls[c].invoked) = 1
    /\ calls[c].invoked[1].F = LeafInfo(c).handler.F
    /\ calls[c].invoked[1].interaction = calls[c].interaction
    /\ calls[c].invoked[1].state = SharedState
    /\ Done(c) =>
           /\ calls[c].produced # <<>>
           /\ calls[c].produced[1].ok => calls[c].result = <<calls[c].produced[1].resp>>

\* C3 as claimed: every declared field supplied under its name with a value
\* of the matching tag => the handler is invoked with arguments equal to the
\* supplied values, the interaction and the state, and its response returned.
C3_MatchingTagsInvoke ==
    \A c \in Callers :
        (HitsLeaf(c) /\ \A f \in FieldsOf(LeafType(c)) :
                            /\ Supplied(calls[c].options, f.name)
                            /\ LastValue(calls[c].options, f.name).tag = RequiredTag(f.ty)) =>
            /\ InvokedOnce(c)
            /\ \A f \in FieldsOf(LeafType(c)) :
                   SamePayload(f.ty, ArgValue(f, calls[c].invoked[1].args[f.name]),
                               LastValue(calls[c].options, f.name))

\* C3, amended: every declared field supplied under its name with a value
\* its type's converter accepts => the handler of that leaf is invoked once
\* with each argument equal to the converted value (the supplied payload
\* itself for String, bool, f64 and the Id types, the first character for
\* char), the call's interaction and the shared state, and the response the
\* handler produced is the one returned.
C3_AcceptedValuesInvoke ==
    \A c \in Callers :
        (HitsLeaf(c) /\ \A f \in FieldsOf(LeafType(c)) :
                            /\ Supplied(calls[c].options, f.name)
                            /\ Convert(f.ty, LastValue(calls[c].options, f.name)).ok) =>
            /\ InvokedOnce(c)
            /\ DOMAIN calls[c].invoked[1].args = { f.name : f \in FieldsOf(LeafType(c)) }
            /\ \A f \in FieldsOf(LeafType(c)) :
                   LET v == LastValue(calls[c].options, f.name)
                       a == ArgValue(f, calls[c].invoked[1].args[f.name])
                   IN  /\ a = Convert(f.ty, v).val
                       /\ f.ty \in ({"String", "bool", "f64"} \cup IdTypes) =>
                              SamePayload(f.ty, a, v)
                       /\ f.ty = "char" => a.str = <<v.str[1]>>

\* C3 witness: "n a" is a Leaf with the required String field text, and a
\* finished execute("n a", [text = "ab"]) invoked the handler with
\* text = "ab" and returned the handler's response.
C3_Witness ==
    \E c \in Callers :
        /\ Done(c)
        /\ HitsLeaf(c)
        /\ calls[c].name = <<"n", " ", "a">>
        /\ LeafType(c).id = "NoteAdd"
        /\ calls[c].options = <<Opt("text", VString(<<"a", "b">>))>>
        /\ Len(calls[c].invoked) = 1
        /\ calls[c].invoked[1].args["text"].str = <<"a", "b">>
        /\ calls[c].produced[1].ok
        /\ calls[c].result = <<calls[c].produced[1].resp>>

\* Every declared field of the leaf's type decodes from the call's options:
\* a required field is supplied and accepted, an optional one is absent or
\* accepted.
FieldDecodes(options, f) ==
    IF Supplied(options, f.name) THEN Convert(f.ty, LastValue(options, f.name)).ok
    ELSE f.optional

DecodesAll(c) == \A f \in FieldsOf(LeafType(c)) : FieldDecodes(calls[c].options, f)

\* C4: when a declared field of the resolved leaf fails to decode (wrong
\* tag, rejected value, or a required field absent), the user handler is not
\* invoked at all, and execute is finished with the parse-failure response.
C4_DecodeFailureSkipsHandler ==
    \A c \in Callers :
        (HitsLeaf(c) /\ ~DecodesAll(c)) =>
            /\ calls[c].invoked = <<>>
            /\ Done(c)
            /\ calls[c].result = <<ParseFailureResponse>>
            /\ "EPHEMERAL" \in calls[c].result[1].flags

\* C4 witness: execute("n a", []) on the NoteAdd leaf (required text absent)
\* finished with the parse-failure response and no invocation; and so did a
\* call whose first field decodes and whose second does not.
C4_Witness ==
    \E c \in Callers :
        /\ Done(c)
        /\ HitsLeaf(c)
        /\ calls[c].name = <<"n", " ", "a">>
        /\ calls[c].options = <<>>
        /\ calls[c].invoked = <<>>
        /\ calls[c].result = <<ParseFailureResponse>>

\* The shape of a response: its kind, its flags, where the message is
\* carried and the fixed part of the message.
Shape(resp) ==
    [kind |-> resp.kind, flags |-> resp.flags,
     payload |-> IF resp.content # <<>> THEN "content"
                 ELSE IF resp.components # <<>> THEN "components" ELSE "none",
     form |-> IF resp.content # <<>> THEN Head(resp.content[1])
              ELSE IF resp.components # <<>> THEN Head(resp.components[1].text)
              ELSE ""]

DecodeFailed(c) == Done(c) /\ HitsLeaf(c) /\ calls[c].invoked = <<>>

HandlerFailed(c) ==
    Done(c) /\ HitsLeaf(c) /\ calls[c].invoked # <<>> /\ ~calls[c].produced[1].ok

C6_NoFailureEscapes ==
    \A c \in Callers :
        (Done(c) /\ HitsLeaf(c)) =>
            /\ calls[c].result # <<>>
            /\ calls[c].produced # <<>>
            /\ IF calls[c].invoked # <<>> /\ calls[c].produced[1].ok
               THEN calls[c].result[1] = calls[c].produced[1].resp
               ELSE "EPHEMERAL" \in calls[c].result[1].flags

\* C6 witness: the handler was invoked, failed, and execute returned an
\* ephemeral response.
C6_Witness ==
    \E c \in Callers :
        /\ HandlerFailed(c)
        /\ calls[c].result # <<>>
        /\ "EPHEMERAL" \in calls[c].result[1].flags

\* C7 as claimed: every finished execute made exactly one handler invocation.
C7_ExactlyOneInvocation ==
    \A c \in Callers : Done(c) => Len(calls[c].invoked) = 1

\* C7, amended: an execute call makes at most one handler invocation, at any
\* point up to its return (no retry); it makes one exactly when its path
\* leads to a Leaf and every declared field decodes, and the closure invoked
\* is the one bound to that Leaf.
C7_AtMostOneInvocation ==
    \A c \in Callers :
        Started(c) =>
            /\ Len(calls[c].invoked) <= 1
            /\ Len(calls[c].invoked) = 1 <=> (HitsLeaf(c) /\ DecodesAll(c))
            /\ Len(calls[c].invoked) = 1 =>
                   /\ calls[c].invoked[1].F = LeafInfo(c).handler.F
                   /\ calls[c].invoked[1].C = LeafInfo(c).handler.C

\* C7 witness: a finished call whose handler failed, with its one invocation,
\* in a tree that holds another Leaf as well.
C7_Witness ==
    \E c \in Callers :
        /\ HandlerFailed(c)
        /\ Len(calls[c].invoked) = 1
        /\ \E p \in ExecNames :
               p # calls[c].name /\ ResolvesToLeaf(commands, Split(p))

\* ---- the conversion layer (ConvSpec)
Parsed == probe.pc = "output"

ProbePresent == Supplied(probe.options, probe.field.name)

ProbeValue == LastValue(probe.options, probe.field.name)

\* C8: with no entry under the field's name an Option<T> field parses to
\* None and a bare T fails with InvalidType; with a value present,
\* Option<T> is Some(v) exactly when T's conversion yields v, and fails with
\* InvalidType when T's conversion fails (never None).
C8_OptionalAndRequired ==
    Parsed =>
        LET ty == probe.field.ty
            r == probe.result
        IN  IF ~ProbePresent
            THEN IF probe.field.optional THEN r.ok /\ r.val = <<>>
                 ELSE ~r.ok /\ r.err = "InvalidType"
            ELSE LET t == Convert(ty, ProbeValue)
                 IN  IF probe.field.optional
                     THEN /\ r.ok <=> t.ok
                          /\ r.ok => r.val = <<t.val>>
                          /\ ~r.ok => r.err = "InvalidType"
                     ELSE /\ r.ok <=> t.ok
                          /\ r.ok => r.val = t.val
                          /\ ~r.ok => r.err = "InvalidType"

\* C8 witness: an Option<bool> field given a String value failed with
\* InvalidType.
C8_Witness ==
    /\ Parsed
    /\ probe.field.optional
    /\ probe.field.ty = "bool"
    /\ ProbePresent
    /\ ProbeValue.tag = "String"
    /\ ~probe.result.ok
    /\ probe.result.err = "InvalidType"

\* The tag the claim assigns to each built-in type.
ClaimedTag(ty) ==
    CASE ty \in {"String", "char"} -> "String"
      [] ty = "bool" -> "Boolean"
      [] ty \in NumericTypes -> "Number"
      [] ty = "Id<UserMarker>" -> "User"
      [] ty = "Id<RoleMarker>" -> "Role"
      [] ty = "Id<ChannelMarker>" -> "Channel"
      [] ty = "Id<GenericMarker>" -> "Mentionable"

\* A bare T given a value: the conversion is decided by the tag alone (and,
\* for char, by the string being non-empty), and fails with InvalidType.
TagDecides ==
    LET ty == probe.field.ty
        v == ProbeValue
        r == probe.result
    IN  /\ r.ok <=> (v.tag = ClaimedTag(ty) /\ (ty = "char" => v.str # <<>>))
        /\ ~r.ok => r.err = "InvalidType"
        /\ (r.ok /\ ty = "char") => r.val.str = <<v.str[1]>>

BareValueParsed == Parsed /\ ~probe.field.optional /\ ProbePresent

\* C10 as claimed: the tag decides, and on success every converter but
\* char's returns the carried value unchanged.
C10_ValueUnchanged ==
    BareValueParsed =>
        /\ TagDecides
        /\ (probe.result.ok /\ probe.field.ty # "char") =>
               SamePayload(probe.field.ty, probe.result.val, ProbeValue)

\* The range of the integer types the model's numbers can leave.
NarrowMin(ty) ==
    CASE ty = "i8" -> -128
      [] ty = "i16" -> -32768
      [] ty \in UnsignedTypes -> 0
      [] OTHER -> -1073741824

NarrowMax(ty) ==
    CASE ty = "i8" -> 127
      [] ty = "u8" -> 255
      [] ty = "i16" -> 32767
      [] ty = "u16" -> 65535
      [] OTHER -> 1073741824

\* n is the f64 h/2 cast to the integer type: the whole number next to h/2
\* on the side of zero when that is in the type's range, else the end of
\* the range it fell off.
IsIntCastOf(n, h, ty) ==
    LET fits(k) == NarrowMin(ty) <= k /\ k <= NarrowMax(ty)
    IN  /\ fits(n)
        /\ \/ /\ h >= 0
              /\ 2 * n <= h
              /\ h < 2 * n + 2 \/ n = NarrowMax(ty)
           \/ /\ h < 0
              /\ 2 * n >= h
              /\ h > 2 * n - 2 \/ n = NarrowMin(ty)
           \/ h < 0 /\ n = 0 /\ ty \in UnsignedTypes

\* r is the f64 h/2 rounded to f32: a 24-bit significand, nearest to h.
IsF32Of(r, h) ==
    LET m == IF h >= 0 THEN h ELSE -h
        u == Ulp24(m)
    IN  /\ r % u = 0
        /\ 2 * (r - h) <= u
        /\ 2 * (h - r) <= u

\* C10, amended: the tag decides (String for String and char, Boolean for
\* bool, Number for every numeric type, User/Role/Channel/Mentionable for
\* the four Id types; char also needs a non-empty string), a failure is
\* InvalidType, and on success String, bool, f64 and the Id types return the
\* carried value unchanged, char returns the first character, and the other
\* numeric types return the number cast with `as`: truncated toward zero
\* and saturated to the integer type's range, or rounded to f32.
C10_TagDecidesValueCast ==
    BareValueParsed =>
        LET ty == probe.field.ty
            v == ProbeValue
            r == probe.result
        IN  /\ TagDecides
            /\ (r.ok /\ ty \in ({"String", "bool", "f64"} \cup IdTypes)) =>
                   SamePayload(ty, r.val, v)
            /\ (r.ok /\ ty \in IntTypes) => IsIntCastOf(r.val.num, v.num, ty)
            /\ (r.ok /\ ty = "f32") => IsF32Of(r.val.num, v.num)
            /\ (r.ok /\ ty \in NumericTypes) => r.val.str = <<>> /\ r.val.bool = FALSE

\* C10 witness: the i8 converter given Number(300.5) returned 127, and the
\* value was not an Integer-tagged one.
C10_Witness ==
    /\ BareValueParsed
    /\ probe.field.ty = "i8"
    /\ ProbeValue = VNumber(601)
    /\ probe.result.ok
    /\ probe.result.val.num = 127

\* ---- the Choices derive (ChoicesSpec)
Derived == probe.pc = "derived"

KeysOfKind(node, kind) == { k \in DOMAIN node.children : node.children[k].kind = kind }

\* opts is the option list of the command type behind a Leaf: one option per
\* declared field, in the order of declaration, named after the field,
\* required unless the field is an Option, of the kind of the field's type.
OptionsFollowFields(opts, info) ==
    LET fields == TypeOf(info.handler.C).fields
    IN  /\ Len(opts) = Len(fields)
        /\ \A i \in 1..Len(fields) :
               /\ opts[i].name = fields[i].name
               /\ opts[i].required = ~fields[i].optional
               /\ opts[i].kind = to_option(fields[i].ty).kind
               /\ opts[i].description = fields[i].description

\* d describes the Leaf: its description and its options, nothing nested.
DescribesLeaf(d, leaf) ==
    /\ d.description = TypeOf(leaf.info.handler.C).description
    /\ OptionsFollowFields(d.options, leaf.info)
    /\ d.subs = {}

\* ds holds exactly one descriptor per key, named after the key.
OnePerKey(ds, keys) ==
    /\ { d.name : d \in ds } = keys
    /\ Cardinality(ds) = Cardinality(keys)

\* g is the subcommand group of a Node child: one subcommand per Leaf child.
DescribesGroup(g, node) ==
    /\ g.options = <<>>
    /\ OnePerKey(g.subs, KeysOfKind(node, "Leaf"))
    /\ \A s \in g.subs : s.kind = "SubCommand" /\ DescribesLeaf(s, node.children[s.name])

\* d is the command of a top-level Node: a subcommand per Leaf child and a
\* subcommand group per Node child.
DescribesNode(d, node) ==
    /\ d.options = <<>>
    /\ OnePerKey(d.subs, DOMAIN node.children)
    /\ \A s \in d.subs :
           LET child == node.children[s.name]
           IN  IF child.kind = "Leaf"
               THEN s.kind = "SubCommand" /\ DescribesLeaf(s, child)
               ELSE s.kind = "SubCommandGroup" /\ DescribesGroup(s, child)

ExportShape(tree, cmds) ==
    /\ OnePerKey(cmds, DOMAIN tree.children)
    /\ \A d \in cmds :
           LET child == tree.children[d.name]
           IN  /\ d.kind = "ChatInput"
               /\ IF child.kind = "Leaf" THEN DescribesLeaf(d, child)
                  ELSE DescribesNode(d, child)

\* C11: every build_commands call returns exactly one command per top-level
\* key of the tree; for a Leaf key a flat command with the leaf's
\* description and one option per declared field in declaration order; for
\* a Node key a command with one subcommand per Leaf child (its description
\* and ordered options) and one subcommand group per Node child, the group
\* holding one subcommand per Leaf child of that child.
C11_ExportFollowsTree ==
    [][BuildCommands => (~exported'.panic /\ ExportShape(commands, exported'.commands))]_vars

\* C11 witness: a schema was taken from a tree with the top-level Leaf "p"
\* and the top-level Node "n" holding the Leaf "a" and the Node "g".
C11_Witness ==
    /\ exported.taken
    /\ exported.commands = build_commands(commands).commands
    /\ ResolvesToLeaf(commands, << <<"p">> >>)
    /\ ResolvesToLeaf(commands, << <<"n">>, <<"a">> >>)
    /\ ResolvesToLeaf(commands, << <<"n">>, <<"g">>, <<"x">> >>)
    /\ Cardinality(exported.commands) = 2

\* A third-level child that is a Node: some registered path has four or
\* more segments.
ThirdLevelNode(tree) ==
    \E a \in KeysOfKind(tree, "Node") :
        \E b \in KeysOfKind(tree.children[a], "Node") :
            KeysOfKind(tree.children[a].children[b], "Node") # {}

\* C12: a build_commands call on a tree that holds a command deeper than
\* three levels (a third-level child is a Node) fails with a fatal error
\* instead of returning a schema.
C12_DeepTreeFailsExport ==
    [][(BuildCommands /\ ThirdLevelNode(commands)) => exported'.panic]_vars

\* C12 witness: "n g x y" is registered and dispatchable, and build_commands
\* returned a schema whose group "g" holds no subcommand.
C12_Witness ==
    /\ exported.taken
    /\ ~exported.panic
    /\ exported.commands = build_commands(commands).commands
    /\ ResolvesToLeaf(commands, << <<"n">>, <<"g">>, <<"x">>, <<"y">> >>)
    /\ \E d \in exported.commands :
           \E g \in d.subs : g.kind = "SubCommandGroup" /\ g.name = <<"g">> /\ g.subs = {}

\* A Node whose children are Leaves and Nodes side by side.
MixedSiblings(node) ==
    KeysOfKind(node, "Leaf") # {} /\ KeysOfKind(node, "Node") # {}

\* C13: when a Node below the root holds Leaves and Nodes side by side
\* (after register of "n a" and "n g x"), the registration or the
\* build_commands call aborts; no schema is returned for such a tree.
C13_MixedSiblingsAbort ==
    [][(BuildCommands /\ \E a \in KeysOfKind(commands, "Node") :
                             MixedSiblings(commands.children[a]))
          => exported'.panic]_vars

\* C13 witness: with "n a" and "n g x" registered, no register call
\* panicked and build_commands returned a schema in which "n" carries the
\* subcommand "a" next to the subcommand group "g".
C13_Witness ==
    /\ ~panicked
    /\ exported.taken
    /\ ~exported.panic
    /\ exported.commands = build_commands(commands).commands
    /\ ResolvesToLeaf(commands, << <<"n">>, <<"a">> >>)
    /\ ResolvesToLeaf(commands, << <<"n">>, <<"g">>, <<"x">> >>)
    /\ \E d \in exported.commands :
           /\ d.name = <<"n">>
           /\ \E s \in d.subs : s.kind = "SubCommand" /\ s.name = <<"a">>
           /\ \E g \in d.subs : g.kind = "SubCommandGroup" /\ g.name = <<"g">>

\* ---- the frame of execute and build_commands (ServeSpec)
\* The paths looked at: every name execute is called with, split.
ProbePaths == { Split(name) : name \in ExecNames }

\* Two trees register the same paths and bind the same entry to each.
SameBindings(t1, t2) ==
    \A q \in ProbePaths :
        /\ get(t1, q) = get(t2, q)
        /\ SubtreeAt(t1, q) = SubtreeAt(t2, q)

\* C14: every step of an execute call (its start, the end of its handler,
\* its return, whatever the outcome and whatever the other calls in flight
\* are doing) and every build_commands call leaves the tree as it was: the
\* same paths, the same entry at each path.
C14_CallsLeaveTreeUnchanged ==
    [][(calls' # calls \/ exported' # exported) =>
           /\ SameBindings(commands, commands')
           /\ commands' = commands
           /\ registered' = registered]_vars

\* C14 witness: while one execute awaits its handler, another has come back
\* from a failed handler, a schema has been taken, and the tree still holds
\* all that was registered.
C14_Witness ==
    /\ calls["c1"].pc = "awaiting"
    /\ HandlerFailed("c2")
    /\ exported.taken
    /\ commands = RegisterAll(NewTree, ServingTypes, 0)
    /\ \A i \in 1..Len(ServingTypes) :
           ResolvesToLeaf(commands, Split(TypeOf(ServingTypes[i]).name))

\* ---- the order of lookup, decode and handler body (ServeSpec)
\* The call c takes its first step: execute is polled for the first time.
Begins(c) == calls[c].pc = "idle" /\ calls'[c].pc # "idle"

\* A step of the body of the handler the call c invoked: the handler's
\* future yields what it produced.
HandlerBodyStep(c) ==
    calls'[c].invoked # <<>> /\ calls'[c].produced # calls[c].produced

\* C15: the first step of an execute call does the lookup and the decoding
\* of every declared field in one piece: when it leaves the call waiting on
\* the handler's future the arguments are all decoded and no step of the
\* handler's body has run; a step of the handler's body is taken only by a
\* call that is waiting with its arguments decoded, and it leaves the name,
\* the options and the decoded arguments of the call as they were.
C15_DecodeBeforeHandlerBody ==
    [][\A c \in Callers :
           /\ Begins(c) =>
                  LET call == calls'[c]
                      hit == get(commands, Split(call.name))
                  IN  /\ call.pc \in {"awaiting", "done"}
                      /\ call.pc = "awaiting" =>
                             /\ hit # <<>>
                             /\ LET data == from_command_data(TypeOf(hit[1].handler.C),
                                                              call.options)
                                IN  /\ data.ok
                                    /\ Len(call.invoked) = 1
                                    /\ call.invoked[1].args = data.args
                             /\ call.produced = <<>>
                             /\ call.result = <<>>
                      /\ call.pc = "done" =>
                             /\ call.invoked = <<>>
                             /\ \/ hit = <<>>
                                \/ ~from_command_data(TypeOf(hit[1].handler.C),
                                                      call.options).ok
           /\ HandlerBodyStep(c) =>
                  /\ calls[c].pc = "awaiting"
                  /\ calls[c].produced = <<>>
                  /\ calls'[c].invoked = calls[c].invoked
                  /\ calls'[c].name = calls[c].name
                  /\ calls'[c].options = calls[c].options]_vars

\* C15 witness: execute("n g x") waits on its handler with text decoded to
\* 'a' and flag to true and nothing produced yet, while the handler body of
\* another call has already run to its end.
C15_Witness ==
    /\ calls["c1"].pc = "awaiting"
    /\ calls["c1"].name = <<"n", " ", "g", " ", "x">>
    /\ Len(calls["c1"].invoked) = 1
    /\ calls["c1"].invoked[1].args["text"].str = <<"a">>
    /\ calls["c1"].invoked[1].args["flag"].bool = TRUE
    /\ calls["c1"].produced = <<>>
    /\ Done("c2")
    /\ calls["c2"].invoked # <<>>
    /\ calls["c2"].produced # <<>>

\* ---- the derived converter (ChoiceConvSpec)
Converted == probe.pc = "converted"

\* The underlying value and the display name a variant declares.
ValueOfVariant(v) == IF v.value # <<>> THEN v.value[1] ELSE v.ident

NameOfVariant(v) == IF v.name # <<>> THEN v.name[1] ELSE v.ident

VariantsValued(s) ==
    { k \in 1..Len(probe.variants) : ValueOfVariant(probe.variants[k]) = s }

VariantsNamed(s) ==
    { k \in 1..Len(probe.variants) : NameOfVariant(probe.variants[k]) = s }

\* C16: the derived converter succeeds exactly on a String equal to the
\* underlying value of a declared variant, and returns that variant; a
\* String that is only some variant's display name, a String matching
\* nothing, and every value that is not a String fail with InvalidType.
C16_MatchesUnderlyingValue ==
    Converted =>
        LET d == probe.data
            r == probe.result
        IN  /\ r.ok <=> (d.tag = "String" /\ VariantsValued(d.str) # {})
            /\ r.ok => \E k \in VariantsValued(d.str) : r.val = probe.variants[k].ident
            /\ ~r.ok => r.err = "InvalidType"
            /\ (d.tag = "String" /\ VariantsNamed(d.str) # {} /\ VariantsValued(d.str) = {})
                   => ~r.ok
            /\ (r.ok /\ VariantsNamed(d.str) # {}) =>
                   \A k \in VariantsNamed(d.str) :
                       ValueOfVariant(probe.variants[k]) # d.str =>
                           r.val # probe.variants[k].ident

\* C16 witness: the first variant is shown as "N1" and valued "W1"; the
\* converter given the String "N1" failed with InvalidType.
C16_Witness ==
    /\ Converted
    /\ probe.variants[1].name = <<Label("N", 1)>>
    /\ probe.variants[1].value = <<Label("W", 1)>>
    /\ probe.data = VString(Label("N", 1))
    /\ ~probe.result.ok
    /\ probe.result.err = "InvalidType"

\* ---- Describe against Decode (ConvSpec)
\* The value tag in which an option of the given kind is delivered.
KindTag(kind) ==
    CASE kind = "String" -> "String"
      [] kind = "Integer" -> "Integer"
      [] kind = "Number" -> "Number"
      [] kind = "Boolean" -> "Boolean"
      [] kind = "User" -> "User"
      [] kind = "Role" -> "Role"
      [] kind = "Channel" -> "Channel"
      [] kind = "Mentionable" -> "Mentionable"

\* C17: for every built-in type the tag its converter accepts is the tag of
\* the kind its to_option exports, so a value delivered in the announced
\* shape (for char, a String of the one character max_length allows)
\* decodes; this includes the integer types, whose kind is Integer.
C17_DescribeDecodeAgree ==
    BareValueParsed =>
        LET ty == probe.field.ty
            v == ProbeValue
            r == probe.result
            kind == to_option(ty).kind
        IN  /\ r.ok => v.tag = KindTag(kind)
            /\ (v.tag = KindTag(kind) /\ (ty = "char" => Len(v.str) = 1)) => r.ok

\* C17 witness: an i32 field, exported with kind Integer, was handed
\* Integer(3) and its converter failed with InvalidType.
C17_Witness ==
    /\ BareValueParsed
    /\ probe.field.ty = "i32"
    /\ to_option(probe.field.ty).kind = "Integer"
    /\ ProbeValue = VInteger(3)
    /\ ~probe.result.ok
    /\ probe.result.err = "InvalidType"

\* ---- register (Spec)
\* A register call is made in this step; the path it inserts at, and the
\* entry it inserts.
Registers == registered' # registered

RegisteredType == TypeOf(registered'[Len(registered')].C)

RegisteredPath == Split(RegisteredType.name)

RegisteredInfo ==
    [handler |-> [C |-> RegisteredType.id, F |-> registered'[Len(registered')].F],
     options |-> options_of(RegisteredType),
     description |-> RegisteredType.description]

\* Some proper prefix of the path is bound to a Leaf.
LeafOnTheWay(tree, path) ==
    \E k \in 1..(Len(path) - 1) : ResolvesToLeaf(tree, SubSeq(path, 1, k))

\* q is p or goes on from p.
Extends(q, p) == Len(q) >= Len(p) /\ SubSeq(q, 1, Len(p)) = p

\* C18: a register call panics exactly when a proper prefix of its path is
\* bound to a Leaf (register "n", then "n a"); the tree is then as it was:
\* the Leaf is still a Leaf with its entry, and nothing is stored at the new
\* path.  With no Leaf on the way (register "n a", then "n") it does not
\* panic.
C18_InsertThroughLeafPanics ==
    [][Registers =>
           /\ panicked' <=> LeafOnTheWay(commands, RegisteredPath)
           /\ panicked' =>
                  /\ commands' = commands
                  /\ SameBindings(commands, commands')
                  /\ get(commands', RegisteredPath) = <<>>
                  /\ \A k \in 1..(Len(RegisteredPath) - 1) :
                         LET prefix == SubSeq(RegisteredPath, 1, k)
                         IN  ResolvesToLeaf(commands, prefix) =>
                                 /\ ResolvesToLeaf(commands', prefix)
                                 /\ get(commands', prefix) = get(commands, prefix)]_vars

\* C18 witness: "n" was registered and then "n a"; the second call
\* panicked, "n" is still the first call's Leaf and "n a" leads nowhere.
C18_Witness ==
    /\ panicked
    /\ Len(registered) = 2
    /\ registered[1].C = "Note"
    /\ registered[2].C = "NoteAdd"
    /\ ResolvesToLeaf(commands, << <<"n">> >>)
    /\ get(commands, << <<"n">> >>)[1].handler.F = 0
    /\ get(commands, << <<"n">>, <<"a">> >>) = <<>>

\* C19: a register call at path p that does not panic binds p to the new
\* entry and makes every path that goes on from p lead nowhere, in lookup
\* and in the export (a Node that was at p is gone with all below it); at
\* every other path get returns what it returned before.
C19_RegisterFrame ==
    [][(Registers /\ ~panicked') =>
           LET p == RegisteredPath
           IN  /\ get(commands', p) = <<RegisteredInfo>>
               /\ \A q \in ProbePaths :
                      /\ ~Extends(q, p) => get(commands', q) = get(commands, q)
                      /\ (Extends(q, p) /\ q # p) =>
                             /\ get(commands', q) = <<>>
                             /\ SubtreeAt(commands', q) = <<>>
                             /\ ExportedAt(build_commands(commands').commands, q) = {}]_vars

\* C19 witness: "n a" and "n g x" were registered and then "n": the Node
\* at "n" is now a Leaf, "n a" and "n g x" are no longer dispatchable, and
\* the export holds the flat command "n" alone.
C19_Witness ==
    /\ ~panicked
    /\ Len(registered) = 3
    /\ registered[1].C = "NoteAdd"
    /\ registered[2].C = "NoteTag"
    /\ registered[3].C = "Note"
    /\ ResolvesToLeaf(commands, << <<"n">> >>)
    /\ get(commands, << <<"n">>, <<"a">> >>) = <<>>
    /\ get(commands, << <<"n">>, <<"g">>, <<"x">> >>) = <<>>
    /\ build_commands(commands).commands =
           { Descriptor("ChatInput", <<"n">>, "Notes", options_of(TypeOf("Note")), {}) }

\* ---- dispatch against export (Spec)
\* The descriptors of the schema that stand for a command one can call at
\* exactly this path: a command with nothing nested, a subcommand, or a
\* subcommand within a group.
CallableAt(cmds, path) ==
    LET top == Named(cmds, "ChatInput", path[1])
    IN  CASE Len(path) = 1 -> { d \in top : d.subs = {} }
          [] Len(path) = 2 -> SubsNamed(top, "SubCommand", path[2])
          [] Len(path) = 3 ->
               SubsNamed(SubsNamed(top, "SubCommandGroup", path[2]), "SubCommand", path[3])
          [] OTHER -> {}

\* C20: whenever build_commands is called (no register call having
\* panicked), a path leads to a Leaf, and so is dispatched by execute, if
\* and only if the schema returned holds a command, subcommand or
\* subcommand-within-group descriptor for exactly that path.
C20_DispatchExportAgree ==
    [][BuildCommands =>
           \A q \in ProbePaths :
               ResolvesToLeaf(commands, q) <=> CallableAt(exported'.commands, q) # {}]_vars

\* C20 witness: "n g x y" leads to a Leaf that execute dispatches, and the
\* schema taken from the same tree has no descriptor for it: the command
\* "n" holds the group "g", and the group holds nothing.
C20_Witness ==
    /\ ~panicked
    /\ exported.taken
    /\ exported.commands = build_commands(commands).commands
    /\ Done("c1")
    /\ calls["c1"].name = <<"n", " ", "g", " ", "x", " ", "y">>
    /\ calls["c1"].result # <<>>
    /\ ResolvesToLeaf(commands, << <<"n">>, <<"g">>, <<"x">>, <<"y">> >>)
    /\ \A d \in exported.commands :
           /\ d.name = <<"n">>
           /\ \A g \in d.subs : g.kind = "SubCommandGroup" /\ g.subs = {}

====
